---- MODULE Spec2Model ----
(***************************************************************************)
(* Model of the ChatApp component (src/unnamed/part_000): the session,     *)
(* the message feed, the profile cache, the live subscription, and the     *)
(* backend calls they are wired to.                                        *)
(*                                                                         *)
(* Every asynchronous handler is split at its await: the part before the   *)
(* await is one action, the backend's processing of the call is one        *)
(* action, and the continuation after the await is one action.  A state    *)
(* update marks the component dirty; React's render (the component body    *)
(* and its effects) is the action Render, and it runs before the next      *)
(* event is handled.                                                       *)
(***************************************************************************)
EXTENDS Integers, Sequences, FiniteSets, TLC

\* ------------------------------------------------------------------ bounds
\* Rows the messages table can come to hold.
MaxMsgs == 2
\* Backend calls of the component that can be in flight at once.
MaxInFlight == 2

\* ------------------------------------------------------------- value sets
Null == "null"
Users == {"u1", "u2"}

\* Characters of the text the model types and of the e-mail addresses.
Space == " "
Contents == { <<>>, <<Space, Space, Space>>, <<"h", "i">> }

Email(u) == IF u = "u1" THEN <<"a", "l", "@", "x">> ELSE <<"b", "o", "@", "x">>

\* The rows the backend's profiles table can hold for a user: no row, a row
\* without avatar_url, a row with avatar_url.
NoRow == "none"
ProfileRows == {NoRow, "plain", "pic"}
\* A cache slot of the component: no entry for the id, or the Profile fetched.
Absent == "absent"

CheckEmailMsg == "Check your email for the confirmation link."
AuthErrorMsg == "Invalid login credentials"

\* ---------------------------------------------------------------- helpers
RemoveAt(s, i) == [j \in 1..(Len(s) - 1) |-> IF j < i THEN s[j] ELSE s[j + 1]]

Range(s) == {s[i] : i \in 1..Len(s)}

Iota(n) == [i \in 1..n |-> i]

\* String.prototype.trim on a sequence of characters.
RECURSIVE TrimLeft(_)
TrimLeft(s) == IF s = <<>> THEN <<>>
               ELSE IF Head(s) = Space THEN TrimLeft(Tail(s)) ELSE s

RECURSIVE TrimRight(_)
TrimRight(s) == IF s = <<>> THEN <<>>
                ELSE IF s[Len(s)] = Space THEN TrimRight(SubSeq(s, 1, Len(s) - 1))
                ELSE s

Trim(s) == TrimRight(TrimLeft(s))

ToUpperCase(c) ==
    CASE c = "a" -> "A" [] c = "b" -> "B" [] c = "l" -> "L" [] c = "o" -> "O"
      [] c = "x" -> "X" [] OTHER -> c

\* email.substring(0, 2).toUpperCase()
getInitials(email) ==
    LET n == IF Len(email) < 2 THEN Len(email) ELSE 2
    IN  [i \in 1..n |-> ToUpperCase(email[i])]

VARIABLES
    \* component state (useState)
    session, messages, newMessage, loading, view, error, menuOpen, profiles,
    \* React bookkeeping
    mounted, dirty, subscribed, submits,
    \* the console.error call made by the step just taken, if any
    logged,
    \* backend
    authSession, db, outbox, channels, profileRows,
    \* calls in flight
    getSessionPending, signInReqs, signUpReqs, signOutReqs,
    loadReqs, profileReqs, sendReqs

uiVars == <<session, messages, newMessage, loading, view, error, menuOpen, profiles>>
reactVars == <<mounted, dirty, subscribed, submits>>
consoleVars == <<logged>>
backendVars == <<authSession, db, outbox, channels, profileRows>>
reqVars == <<getSessionPending, signInReqs, signUpReqs, signOutReqs,
             loadReqs, profileReqs, sendReqs>>
vars == <<uiVars, reactVars, backendVars, reqVars, consoleVars>>

\* The number of backend calls in flight, and the room for n more.
InFlight == Len(signInReqs) + Len(signUpReqs) + Len(signOutReqs)
            + Len(loadReqs) + Len(profileReqs) + Len(sendReqs)

Room(n) == InFlight + n <= MaxInFlight

\* The state after construction and the first render: useState defaults, the
\* getSession call issued, the auth listener registered, no live channel
\* (the subscription effect returned early: no session).
Init ==
    /\ session = Null
    /\ messages = <<>>
    /\ newMessage = <<>>
    /\ loading = TRUE
    /\ view = "login"
    /\ error = Null
    /\ menuOpen = FALSE
    /\ profiles = [u \in Users |-> Absent]
    /\ mounted = TRUE
    /\ dirty = FALSE
    /\ subscribed = FALSE
    /\ submits = 0
    /\ logged = Null
    /\ authSession \in Users \cup {Null}
    /\ db = <<>>
    /\ outbox = {}
    /\ channels = 0
    /\ profileRows = [u \in Users |-> NoRow]
    /\ getSessionPending = TRUE
    /\ signInReqs = <<>>
    /\ signUpReqs = <<>>
    /\ signOutReqs = <<>>
    /\ loadReqs = <<>>
    /\ profileReqs = <<>>
    /\ sendReqs = <<>>

\* ------------------------------------------------------ session lifecycle

\* fetchMessages up to its await: the messages query is sent.
FetchMessagesCall(reqs) == Append(reqs, [phase |-> "sent", rows |-> 0])

\* The callback without its test of the session: a load on every auth event.
OnAuthStateChangeAlwaysFetch(s) ==
    /\ session' = s
    /\ loadReqs' = FetchMessagesCall(loadReqs)
    /\ dirty' = TRUE

\* The onAuthStateChange callback: setSession(session); if (session) fetchMessages().
OnAuthStateChange(s) ==
    /\ session' = s
    /\ loadReqs' = IF s # Null THEN FetchMessagesCall(loadReqs) ELSE loadReqs
    /\ dirty' = TRUE

\* The bound on loads in flight, for an action that may call fetchMessages.
LoadRoom(s) == s # Null => Room(1)

\* supabase.auth.getSession().then(...): the initial session is discovered.
GetSessionResolved ==
    /\ mounted /\ ~dirty /\ getSessionPending
    /\ LoadRoom(authSession)
    /\ getSessionPending' = FALSE
    /\ session' = authSession
    /\ loadReqs' = IF authSession # Null THEN FetchMessagesCall(loadReqs) ELSE loadReqs
    /\ loading' = FALSE
    /\ dirty' = TRUE
    /\ UNCHANGED <<messages, newMessage, view, error, menuOpen, profiles>>
    /\ UNCHANGED <<mounted, subscribed, submits>>
    /\ UNCHANGED backendVars
    /\ UNCHANGED <<signInReqs, signUpReqs, signOutReqs, profileReqs, sendReqs>>
    /\ logged' = Null

\* An auth-state change the backend pushes without a call of this component:
\* a token refresh (the same session again), an expiry (no session), a sign-in
\* or sign-out in another tab.
AuthStatePushed(s) ==
    /\ mounted /\ ~dirty
    /\ LoadRoom(s)
    /\ authSession' = s
    /\ OnAuthStateChange(s)
    /\ UNCHANGED <<messages, newMessage, loading, view, error, menuOpen, profiles>>
    /\ UNCHANGED <<mounted, subscribed, submits>>
    /\ UNCHANGED <<db, outbox, channels, profileRows>>
    /\ UNCHANGED <<getSessionPending, signInReqs, signUpReqs, signOutReqs,
                   profileReqs, sendReqs>>
    /\ logged' = Null

\* What the last render put on the screen.
Screen ==
    IF loading /\ session = Null THEN "loading"
    ELSE IF view = "chat" THEN (IF session = Null THEN "blank" ELSE "chat")
    ELSE view

\* signIn up to its await: setError(null); setLoading(true); the call is sent.
SignIn(u) ==
    /\ mounted /\ ~dirty
    /\ Screen = "login" /\ ~loading
    /\ Room(1)
    /\ error' = Null
    /\ loading' = TRUE
    /\ signInReqs' = Append(signInReqs, [user |-> u, phase |-> "sent"])
    /\ dirty' = TRUE
    /\ UNCHANGED <<session, messages, newMessage, view, menuOpen, profiles>>
    /\ UNCHANGED <<mounted, subscribed, submits>>
    /\ UNCHANGED backendVars
    /\ UNCHANGED <<getSessionPending, signUpReqs, signOutReqs, loadReqs,
                   profileReqs, sendReqs>>
    /\ logged' = Null

\* The backend answers signInWithPassword: on success it establishes the
\* session and notifies the auth listener before the call returns.
Authenticate(i, ok) ==
    /\ mounted /\ ~dirty
    /\ i \in 1..Len(signInReqs) /\ signInReqs[i].phase = "sent"
    /\ signInReqs' = [signInReqs EXCEPT ![i].phase = IF ok THEN "ok" ELSE "error"]
    /\ IF ok
       THEN /\ LoadRoom(signInReqs[i].user)
            /\ authSession' = signInReqs[i].user
            /\ OnAuthStateChange(signInReqs[i].user)
       ELSE UNCHANGED <<authSession, session, loadReqs, dirty>>
    /\ UNCHANGED <<messages, newMessage, loading, view, error, menuOpen, profiles>>
    /\ UNCHANGED <<mounted, subscribed, submits>>
    /\ UNCHANGED <<db, outbox, channels, profileRows>>
    /\ UNCHANGED <<getSessionPending, signUpReqs, signOutReqs, profileReqs, sendReqs>>
    /\ logged' = Null

\* signIn without its finally block: the flag is reset on success only.
SignInDoneNoFinally(i) ==
    /\ mounted /\ ~dirty
    /\ i \in 1..Len(signInReqs) /\ signInReqs[i].phase # "sent"
    /\ IF signInReqs[i].phase = "ok"
       THEN view' = "chat" /\ loading' = FALSE /\ UNCHANGED error
       ELSE error' = AuthErrorMsg /\ UNCHANGED <<view, loading>>
    /\ signInReqs' = RemoveAt(signInReqs, i)
    /\ dirty' = TRUE
    /\ UNCHANGED <<session, messages, newMessage, menuOpen, profiles>>
    /\ UNCHANGED <<mounted, subscribed, submits>>
    /\ UNCHANGED backendVars
    /\ UNCHANGED <<getSessionPending, signUpReqs, signOutReqs, loadReqs,
                   profileReqs, sendReqs>>
    /\ logged' = Null

\* signIn with a catch block that only logs: the failure is not shown.
SignInDoneSwallowed(i) ==
    /\ mounted /\ ~dirty
    /\ i \in 1..Len(signInReqs) /\ signInReqs[i].phase # "sent"
    /\ IF signInReqs[i].phase = "ok"
       THEN view' = "chat" /\ UNCHANGED error
       ELSE UNCHANGED <<view, error>>
    /\ loading' = FALSE
    /\ signInReqs' = RemoveAt(signInReqs, i)
    /\ dirty' = TRUE
    /\ UNCHANGED <<session, messages, newMessage, menuOpen, profiles>>
    /\ UNCHANGED <<mounted, subscribed, submits>>
    /\ UNCHANGED backendVars
    /\ UNCHANGED <<getSessionPending, signUpReqs, signOutReqs, loadReqs,
                   profileReqs, sendReqs>>
    /\ logged' = Null

\* signIn after its await.
SignInDone(i) ==
    /\ mounted /\ ~dirty
    /\ i \in 1..Len(signInReqs) /\ signInReqs[i].phase # "sent"
    /\ IF signInReqs[i].phase = "ok"
       THEN view' = "chat" /\ UNCHANGED error
       ELSE error' = AuthErrorMsg /\ UNCHANGED view
    /\ loading' = FALSE
    /\ signInReqs' = RemoveAt(signInReqs, i)
    /\ dirty' = TRUE
    /\ UNCHANGED <<session, messages, newMessage, menuOpen, profiles>>
    /\ UNCHANGED <<mounted, subscribed, submits>>
    /\ UNCHANGED backendVars
    /\ UNCHANGED <<getSessionPending, signUpReqs, signOutReqs, loadReqs,
                   profileReqs, sendReqs>>
    /\ logged' = Null

\* signUp up to its await.
SignUp ==
    /\ mounted /\ ~dirty
    /\ Screen = "signup" /\ ~loading
    /\ Room(1)
    /\ error' = Null
    /\ loading' = TRUE
    /\ signUpReqs' = Append(signUpReqs, "sent")
    /\ dirty' = TRUE
    /\ UNCHANGED <<session, messages, newMessage, view, menuOpen, profiles>>
    /\ UNCHANGED <<mounted, subscribed, submits>>
    /\ UNCHANGED backendVars
    /\ UNCHANGED <<getSessionPending, signInReqs, signOutReqs, loadReqs,
                   profileReqs, sendReqs>>
    /\ logged' = Null

\* The backend answers auth.signUp: the account is registered (a confirmation
\* e-mail is sent, no session is established) or the call is refused.
Register(i, ok) ==
    /\ mounted /\ ~dirty
    /\ i \in 1..Len(signUpReqs) /\ signUpReqs[i] = "sent"
    /\ signUpReqs' = [signUpReqs EXCEPT ![i] = IF ok THEN "ok" ELSE "error"]
    /\ UNCHANGED uiVars
    /\ UNCHANGED reactVars
    /\ UNCHANGED backendVars
    /\ UNCHANGED <<getSessionPending, signInReqs, signOutReqs, loadReqs,
                   profileReqs, sendReqs>>
    /\ logged' = Null

\* signUp ending like signIn: setView('chat') on success.
SignUpDoneToChat(i) ==
    /\ mounted /\ ~dirty
    /\ i \in 1..Len(signUpReqs) /\ signUpReqs[i] # "sent"
    /\ IF signUpReqs[i] = "ok"
       THEN view' = "chat" /\ UNCHANGED error
       ELSE error' = AuthErrorMsg /\ UNCHANGED view
    /\ loading' = FALSE
    /\ signUpReqs' = RemoveAt(signUpReqs, i)
    /\ dirty' = TRUE
    /\ UNCHANGED <<session, messages, newMessage, menuOpen, profiles>>
    /\ UNCHANGED <<mounted, subscribed, submits>>
    /\ UNCHANGED backendVars
    /\ UNCHANGED <<getSessionPending, signInReqs, signOutReqs, loadReqs,
                   profileReqs, sendReqs>>
    /\ logged' = Null

\* signUp after its await.
SignUpDone(i) ==
    /\ mounted /\ ~dirty
    /\ i \in 1..Len(signUpReqs) /\ signUpReqs[i] # "sent"
    /\ error' = IF signUpReqs[i] = "ok" THEN CheckEmailMsg ELSE AuthErrorMsg
    /\ loading' = FALSE
    /\ signUpReqs' = RemoveAt(signUpReqs, i)
    /\ dirty' = TRUE
    /\ UNCHANGED <<session, messages, newMessage, view, menuOpen, profiles>>
    /\ UNCHANGED <<mounted, subscribed, submits>>
    /\ UNCHANGED backendVars
    /\ UNCHANGED <<getSessionPending, signInReqs, signOutReqs, loadReqs,
                   profileReqs, sendReqs>>
    /\ logged' = Null

\* signOut up to its await: the button of the open menu of the chat screen.
SignOut ==
    /\ mounted /\ ~dirty
    /\ Screen = "chat" /\ menuOpen
    /\ Room(1)
    /\ loading' = TRUE
    /\ signOutReqs' = Append(signOutReqs, "sent")
    /\ dirty' = TRUE
    /\ UNCHANGED <<session, messages, newMessage, view, error, menuOpen, profiles>>
    /\ UNCHANGED <<mounted, subscribed, submits>>
    /\ UNCHANGED backendVars
    /\ UNCHANGED <<getSessionPending, signInReqs, signUpReqs, loadReqs,
                   profileReqs, sendReqs>>
    /\ logged' = Null

\* The backend answers auth.signOut: it ends the session and notifies the auth
\* listener, or the call throws and the session stays.
Deauthenticate(i, ok) ==
    /\ mounted /\ ~dirty
    /\ i \in 1..Len(signOutReqs) /\ signOutReqs[i] = "sent"
    /\ signOutReqs' = [signOutReqs EXCEPT ![i] = IF ok THEN "ok" ELSE "error"]
    /\ IF ok
       THEN authSession' = Null /\ OnAuthStateChange(Null)
       ELSE UNCHANGED <<authSession, session, loadReqs, dirty>>
    /\ UNCHANGED <<messages, newMessage, loading, view, error, menuOpen, profiles>>
    /\ UNCHANGED <<mounted, subscribed, submits>>
    /\ UNCHANGED <<db, outbox, channels, profileRows>>
    /\ UNCHANGED <<getSessionPending, signInReqs, signUpReqs, profileReqs, sendReqs>>
    /\ logged' = Null

\* signOut after its await.
SignOutDone(i) ==
    /\ mounted /\ ~dirty
    /\ i \in 1..Len(signOutReqs) /\ signOutReqs[i] # "sent"
    /\ IF signOutReqs[i] = "ok"
       THEN view' = "login" /\ menuOpen' = FALSE
       ELSE UNCHANGED <<view, menuOpen>>
    /\ loading' = FALSE
    /\ signOutReqs' = RemoveAt(signOutReqs, i)
    /\ dirty' = TRUE
    /\ UNCHANGED <<session, messages, newMessage, error, profiles>>
    /\ UNCHANGED <<mounted, subscribed, submits>>
    /\ UNCHANGED backendVars
    /\ UNCHANGED <<getSessionPending, signInReqs, signUpReqs, loadReqs,
                   profileReqs, sendReqs>>
    /\ logged' = IF signOutReqs[i] = "ok" THEN Null ELSE "signOut"

\* ------------------------------------------------------------ message feed

\* msg.user_id of the message with this id (messages are immutable rows).
UserIdOf(id) == db[id]

\* fetchProfiles up to its await: the profiles query for these ids is sent.
FetchProfilesCall(reqs, ids) ==
    Append(reqs, [ids |-> ids, phase |-> "sent", rows |-> [u \in Users |-> NoRow]])

\* The backend answers the messages query: every row, created_at ascending.
QueryMessages(i, ok) ==
    /\ mounted /\ ~dirty
    /\ i \in 1..Len(loadReqs) /\ loadReqs[i].phase = "sent"
    /\ loadReqs' = [loadReqs EXCEPT ![i] =
                      IF ok THEN [phase |-> "ok", rows |-> Len(db)]
                      ELSE [phase |-> "error", rows |-> 0]]
    /\ UNCHANGED uiVars
    /\ UNCHANGED reactVars
    /\ UNCHANGED backendVars
    /\ UNCHANGED <<getSessionPending, signInReqs, signUpReqs, signOutReqs,
                   profileReqs, sendReqs>>
    /\ logged' = Null

\* new Set(data.map(msg => msg.user_id)) of the first n rows.
UserIdsOf(n) == {UserIdOf(id) : id \in 1..n}

\* A merge instead of a replace: the rows fetched are appended to the feed.
FetchMessagesDoneMerge(i) ==
    /\ mounted /\ ~dirty
    /\ i \in 1..Len(loadReqs) /\ loadReqs[i].phase # "sent"
    /\ loadReqs' = RemoveAt(loadReqs, i)
    /\ IF loadReqs[i].phase = "ok"
       THEN /\ messages' = messages \o Iota(loadReqs[i].rows)
            /\ profileReqs' = FetchProfilesCall(profileReqs, UserIdsOf(loadReqs[i].rows))
            /\ dirty' = TRUE
       ELSE UNCHANGED <<messages, profileReqs, dirty>>
    /\ UNCHANGED <<session, newMessage, loading, view, error, menuOpen, profiles>>
    /\ UNCHANGED <<mounted, subscribed, submits>>
    /\ UNCHANGED backendVars
    /\ UNCHANGED <<getSessionPending, signInReqs, signUpReqs, signOutReqs, sendReqs>>
    /\ logged' = IF loadReqs[i].phase = "ok" THEN Null ELSE "messages"

\* Without new Set(...): one profiles query per row fetched.
FetchMessagesDonePerRow(i) ==
    /\ mounted /\ ~dirty
    /\ i \in 1..Len(loadReqs) /\ loadReqs[i].phase # "sent"
    /\ loadReqs' = RemoveAt(loadReqs, i)
    /\ IF loadReqs[i].phase = "ok"
       THEN /\ messages' = Iota(loadReqs[i].rows)
            /\ profileReqs' = profileReqs \o
                    [k \in 1..loadReqs[i].rows |->
                        [ids |-> {UserIdOf(k)}, phase |-> "sent",
                         rows |-> [u \in Users |-> NoRow]]]
            /\ dirty' = TRUE
       ELSE UNCHANGED <<messages, profileReqs, dirty>>
    /\ UNCHANGED <<session, newMessage, loading, view, error, menuOpen, profiles>>
    /\ UNCHANGED <<mounted, subscribed, submits>>
    /\ UNCHANGED backendVars
    /\ UNCHANGED <<getSessionPending, signInReqs, signUpReqs, signOutReqs, sendReqs>>
    /\ logged' = IF loadReqs[i].phase = "ok" THEN Null ELSE "messages"

\* fetchMessages after its await: setMessages(data) and fetchProfiles(userIds),
\* or the error is logged.
FetchMessagesDone(i) ==
    /\ mounted /\ ~dirty
    /\ i \in 1..Len(loadReqs) /\ loadReqs[i].phase # "sent"
    /\ loadReqs' = RemoveAt(loadReqs, i)
    /\ IF loadReqs[i].phase = "ok"
       THEN /\ messages' = Iota(loadReqs[i].rows)
            /\ profileReqs' = FetchProfilesCall(profileReqs, UserIdsOf(loadReqs[i].rows))
            /\ dirty' = TRUE
       ELSE UNCHANGED <<messages, profileReqs, dirty>>
    /\ UNCHANGED <<session, newMessage, loading, view, error, menuOpen, profiles>>
    /\ UNCHANGED <<mounted, subscribed, submits>>
    /\ UNCHANGED backendVars
    /\ UNCHANGED <<getSessionPending, signInReqs, signUpReqs, signOutReqs, sendReqs>>
    /\ logged' = IF loadReqs[i].phase = "ok" THEN Null ELSE "messages"

\* x, n times over.
Repeat(x, n) == [k \in 1..n |-> x]

\* The other policy: the feed is kept in created_at order, the row is put at
\* its place.
LiveInsertSorted(id) ==
    /\ mounted /\ ~dirty
    /\ id \in outbox /\ channels >= 1
    /\ Room(channels)
    /\ outbox' = outbox \ {id}
    /\ messages' = SelectSeq(messages, LAMBDA x : x <= id) \o Repeat(id, channels)
                        \o SelectSeq(messages, LAMBDA x : x > id)
    /\ profileReqs' = profileReqs \o
            Repeat([ids |-> {UserIdOf(id)}, phase |-> "sent",
                    rows |-> [u \in Users |-> NoRow]], channels)
    /\ dirty' = TRUE
    /\ UNCHANGED <<session, newMessage, loading, view, error, menuOpen, profiles>>
    /\ UNCHANGED <<mounted, subscribed, submits>>
    /\ UNCHANGED <<authSession, db, channels, profileRows>>
    /\ UNCHANGED <<getSessionPending, signInReqs, signUpReqs, signOutReqs,
                   loadReqs, sendReqs>>
    /\ logged' = Null

\* The postgres_changes INSERT handler: the backend emits the event of a
\* persisted row to the live channels and each channel's handler runs:
\* setMessages(prev => [...prev, newMessage]); fetchProfiles([user_id]).
LiveInsert(id) ==
    /\ mounted /\ ~dirty
    /\ id \in outbox /\ channels >= 1
    /\ Room(channels)
    /\ outbox' = outbox \ {id}
    /\ messages' = messages \o Repeat(id, channels)
    /\ profileReqs' = profileReqs \o
            Repeat([ids |-> {UserIdOf(id)}, phase |-> "sent",
                    rows |-> [u \in Users |-> NoRow]], channels)
    /\ dirty' = TRUE
    /\ UNCHANGED <<session, newMessage, loading, view, error, menuOpen, profiles>>
    /\ UNCHANGED <<mounted, subscribed, submits>>
    /\ UNCHANGED <<authSession, db, channels, profileRows>>
    /\ UNCHANGED <<getSessionPending, signInReqs, signUpReqs, signOutReqs,
                   loadReqs, sendReqs>>
    /\ logged' = Null

\* The backend emits the event of a persisted row while no live channel is
\* joined: nobody hears it.
EventUnheard(id) ==
    /\ mounted /\ ~dirty
    /\ id \in outbox /\ channels = 0
    /\ outbox' = outbox \ {id}
    /\ UNCHANGED uiVars
    /\ UNCHANGED reactVars
    /\ UNCHANGED <<authSession, db, channels, profileRows>>
    /\ UNCHANGED reqVars
    /\ logged' = Null

\* A row is inserted into the messages table: it is persisted and its INSERT
\* event is to be emitted.
Persist(u) ==
    /\ db' = Append(db, u)
    /\ outbox' = outbox \cup {Len(db) + 1}

\* Another client of the backend posts a message.
OtherClientInsert(u) ==
    /\ mounted /\ ~dirty
    /\ Len(db) + Len(sendReqs) < MaxMsgs
    /\ Persist(u)
    /\ UNCHANGED uiVars
    /\ UNCHANGED reactVars
    /\ UNCHANGED <<authSession, channels, profileRows>>
    /\ UNCHANGED reqVars
    /\ logged' = Null

\* ------------------------------------------------------------ profile cache

\* The backend answers the profiles query: the rows whose id is in the list.
QueryProfiles(i, ok) ==
    /\ mounted /\ ~dirty
    /\ i \in 1..Len(profileReqs) /\ profileReqs[i].phase = "sent"
    /\ profileReqs' = [profileReqs EXCEPT ![i] =
            IF ok
            THEN [@ EXCEPT !.phase = "ok",
                           !.rows = [u \in Users |->
                                IF u \in profileReqs[i].ids THEN profileRows[u] ELSE NoRow]]
            ELSE [@ EXCEPT !.phase = "error"]]
    /\ UNCHANGED uiVars
    /\ UNCHANGED reactVars
    /\ UNCHANGED backendVars
    /\ UNCHANGED <<getSessionPending, signInReqs, signUpReqs, signOutReqs,
                   loadReqs, sendReqs>>
    /\ logged' = Null

\* Without the spread of prev, setProfiles(profileMap): the cache becomes the
\* rows fetched.
MergeProfilesReplace(prev, rows) ==
    [u \in Users |-> IF rows[u] # NoRow THEN rows[u] ELSE Absent]

\* The spread the other way round, ({ ...profileMap, ...prev }): an entry
\* already in the cache wins over the row fetched.
MergeProfilesKeepOld(prev, rows) ==
    [u \in Users |-> IF prev[u] # Absent THEN prev[u] ELSE rows[u]]

\* setProfiles(prev => ({ ...prev, ...profileMap })).
MergeProfiles(prev, rows) ==
    [u \in Users |-> IF rows[u] # NoRow THEN rows[u] ELSE prev[u]]

\* The failure shown to the user: the catch also sets the error.
FetchProfilesDoneSurfaced(i) ==
    /\ mounted /\ ~dirty
    /\ i \in 1..Len(profileReqs) /\ profileReqs[i].phase # "sent"
    /\ profileReqs' = RemoveAt(profileReqs, i)
    /\ IF profileReqs[i].phase = "ok"
       THEN /\ profiles' = MergeProfiles(profiles, profileReqs[i].rows)
            /\ UNCHANGED error
       ELSE /\ error' = "Error fetching profiles"
            /\ UNCHANGED profiles
    /\ dirty' = TRUE
    /\ UNCHANGED <<session, messages, newMessage, loading, view, menuOpen>>
    /\ UNCHANGED <<mounted, subscribed, submits>>
    /\ UNCHANGED backendVars
    /\ UNCHANGED <<getSessionPending, signInReqs, signUpReqs, signOutReqs,
                   loadReqs, sendReqs>>
    /\ logged' = IF profileReqs[i].phase = "ok" THEN Null ELSE "profiles"

\* fetchProfiles after its await: the rows are merged into the cache, or the
\* error is logged.
FetchProfilesDone(i) ==
    /\ mounted /\ ~dirty
    /\ i \in 1..Len(profileReqs) /\ profileReqs[i].phase # "sent"
    /\ profileReqs' = RemoveAt(profileReqs, i)
    /\ IF profileReqs[i].phase = "ok"
       THEN /\ profiles' = MergeProfiles(profiles, profileReqs[i].rows)
            /\ dirty' = TRUE
       ELSE UNCHANGED <<profiles, dirty>>
    /\ UNCHANGED <<session, messages, newMessage, loading, view, error, menuOpen>>
    /\ UNCHANGED <<mounted, subscribed, submits>>
    /\ UNCHANGED backendVars
    /\ UNCHANGED <<getSessionPending, signInReqs, signUpReqs, signOutReqs,
                   loadReqs, sendReqs>>
    /\ logged' = IF profileReqs[i].phase = "ok" THEN Null ELSE "profiles"

\* A user edits their profile row on the backend.
ProfileRowChanged(u, row) ==
    /\ mounted /\ ~dirty
    /\ profileRows[u] # row
    /\ profileRows' = [profileRows EXCEPT ![u] = row]
    /\ UNCHANGED uiVars
    /\ UNCHANGED reactVars
    /\ UNCHANGED <<authSession, db, outbox, channels>>
    /\ UNCHANGED reqVars
    /\ logged' = Null

\* The avatar slot of one rendered message: the image of the cached profile
\* when it has an avatar_url, the initials of the sender's e-mail otherwise.
Avatar(id) ==
    IF profiles[UserIdOf(id)] = "pic"
    THEN [img |-> UserIdOf(id)]
    ELSE [initials |-> getInitials(Email(UserIdOf(id)))]

\* -------------------------------------------------------------------- send

\* The early return testing the raw text: whitespace passes.
SendRefusedUntrimmed == newMessage = <<>> \/ session = Null

\* The early return of sendMessage: if (!newMessage.trim() || !session) return.
SendRefused == Trim(newMessage) = <<>> \/ session = Null

\* sendMessage up to its await (the form's submit event is handled: submits
\* flips on every call): nothing on the early return, the insert is sent
\* otherwise.
SendMessage ==
    /\ mounted /\ ~dirty
    /\ submits' = 1 - submits
    /\ IF SendRefused
       THEN UNCHANGED sendReqs
       ELSE /\ Len(db) + Len(sendReqs) < MaxMsgs
            /\ Room(1)
            /\ sendReqs' = Append(sendReqs, [user |-> session, content |-> newMessage, phase |-> "sent"])
    /\ UNCHANGED uiVars
    /\ UNCHANGED <<mounted, dirty, subscribed>>
    /\ UNCHANGED backendVars
    /\ UNCHANGED <<getSessionPending, signInReqs, signUpReqs, signOutReqs,
                   loadReqs, profileReqs>>
    /\ logged' = Null

\* The backend answers the insert: the row is persisted, or the insert fails.
InsertMessage(i, ok) ==
    /\ mounted /\ ~dirty
    /\ i \in 1..Len(sendReqs) /\ sendReqs[i].phase = "sent"
    /\ sendReqs' = [sendReqs EXCEPT ![i].phase = IF ok THEN "ok" ELSE "error"]
    /\ IF ok THEN Persist(sendReqs[i].user) ELSE UNCHANGED <<db, outbox>>
    /\ UNCHANGED uiVars
    /\ UNCHANGED reactVars
    /\ UNCHANGED <<authSession, channels, profileRows>>
    /\ UNCHANGED <<getSessionPending, signInReqs, signUpReqs, signOutReqs,
                   loadReqs, profileReqs>>
    /\ logged' = Null

\* An optimistic insertion: the continuation also puts the row just persisted
\* into the feed.
SendMessageDoneOptimistic(i) ==
    /\ mounted /\ ~dirty
    /\ i \in 1..Len(sendReqs) /\ sendReqs[i].phase # "sent"
    /\ sendReqs' = RemoveAt(sendReqs, i)
    /\ IF sendReqs[i].phase = "ok"
       THEN /\ newMessage' = <<>>
            /\ messages' = Append(messages, Len(db))
            /\ dirty' = TRUE
       ELSE UNCHANGED <<newMessage, messages, dirty>>
    /\ UNCHANGED <<session, loading, view, error, menuOpen, profiles>>
    /\ UNCHANGED <<mounted, subscribed, submits>>
    /\ UNCHANGED backendVars
    /\ UNCHANGED <<getSessionPending, signInReqs, signUpReqs, signOutReqs,
                   loadReqs, profileReqs>>
    /\ logged' = IF sendReqs[i].phase = "ok" THEN Null ELSE "send"

\* The input cleared in a finally block, whatever the outcome of the insert.
SendMessageDoneClearsAlways(i) ==
    /\ mounted /\ ~dirty
    /\ i \in 1..Len(sendReqs) /\ sendReqs[i].phase # "sent"
    /\ sendReqs' = RemoveAt(sendReqs, i)
    /\ newMessage' = <<>> /\ dirty' = TRUE
    /\ UNCHANGED <<session, messages, loading, view, error, menuOpen, profiles>>
    /\ UNCHANGED <<mounted, subscribed, submits>>
    /\ UNCHANGED backendVars
    /\ UNCHANGED <<getSessionPending, signInReqs, signUpReqs, signOutReqs,
                   loadReqs, profileReqs>>
    /\ logged' = IF sendReqs[i].phase = "ok" THEN Null ELSE "send"

\* sendMessage after its await: setNewMessage(''), or the error is logged.
SendMessageDone(i) ==
    /\ mounted /\ ~dirty
    /\ i \in 1..Len(sendReqs) /\ sendReqs[i].phase # "sent"
    /\ sendReqs' = RemoveAt(sendReqs, i)
    /\ IF sendReqs[i].phase = "ok"
       THEN newMessage' = <<>> /\ dirty' = TRUE
       ELSE UNCHANGED <<newMessage, dirty>>
    /\ UNCHANGED <<session, messages, loading, view, error, menuOpen, profiles>>
    /\ UNCHANGED <<mounted, subscribed, submits>>
    /\ UNCHANGED backendVars
    /\ UNCHANGED <<getSessionPending, signInReqs, signUpReqs, signOutReqs,
                   loadReqs, profileReqs>>
    /\ logged' = IF sendReqs[i].phase = "ok" THEN Null ELSE "send"

\* ---------------------------------------------------------------- UI events

\* onChange of the message input of the chat screen.
TypeMessage(c) ==
    /\ mounted /\ ~dirty
    /\ Screen = "chat"
    /\ newMessage # c
    /\ newMessage' = c
    /\ dirty' = TRUE
    /\ UNCHANGED <<session, messages, loading, view, error, menuOpen, profiles>>
    /\ UNCHANGED <<mounted, subscribed, submits>>
    /\ UNCHANGED backendVars
    /\ UNCHANGED reqVars
    /\ logged' = Null

\* The menu button of the chat screen: setMenuOpen(!menuOpen).
ToggleMenu ==
    /\ mounted /\ ~dirty
    /\ Screen = "chat"
    /\ menuOpen' = ~menuOpen
    /\ dirty' = TRUE
    /\ UNCHANGED <<session, messages, newMessage, loading, view, error, profiles>>
    /\ UNCHANGED <<mounted, subscribed, submits>>
    /\ UNCHANGED backendVars
    /\ UNCHANGED reqVars
    /\ logged' = Null

\* The links between the login and the signup screen: setError(null); setView(..).
SwitchView ==
    /\ mounted /\ ~dirty
    /\ Screen \in {"login", "signup"}
    /\ error' = Null
    /\ view' = IF Screen = "login" THEN "signup" ELSE "login"
    /\ dirty' = TRUE
    /\ UNCHANGED <<session, messages, newMessage, loading, menuOpen, profiles>>
    /\ UNCHANGED <<mounted, subscribed, submits>>
    /\ UNCHANGED backendVars
    /\ UNCHANGED reqVars
    /\ logged' = Null

\* ------------------------------------------------------------------- render

\* The view selection of the component body: the loading screen returns
\* before it; otherwise a session forces the chat view.
SelectView ==
    IF loading /\ session = Null THEN view
    ELSE IF session # Null /\ view # "chat" THEN "chat"
    ELSE view

\* The subscription effect returning no cleanup: the old channel stays.
RemoveChannelSkipped(chs) == chs

\* The cleanup of the subscription effect: supabase.removeChannel(handle).
\* channels counts the live channels joined on the backend.
RemoveChannel(chs) == IF subscribed THEN chs - 1 ELSE chs

\* The subscription effect without its early return: it subscribes with or
\* without a session.
SubscriptionEffectAlways ==
    /\ channels' = RemoveChannel(channels) + 1
    /\ subscribed' = TRUE

\* The subscription effect.  Its dependency supabase is a new client on every
\* render, so every render runs the cleanup of the previous run and then the
\* effect again: no channel without a session, a new channel with one.
SubscriptionEffect ==
    /\ channels' = IF session = Null THEN RemoveChannel(channels)
                   ELSE RemoveChannel(channels) + 1
    /\ subscribed' = (session # Null)

\* One render of the component with its effects.
Render ==
    /\ mounted /\ dirty
    /\ dirty' = FALSE
    /\ view' = SelectView
    /\ SubscriptionEffect
    /\ UNCHANGED <<session, messages, newMessage, loading, error, menuOpen, profiles>>
    /\ UNCHANGED <<mounted, submits>>
    /\ UNCHANGED <<authSession, db, outbox, profileRows>>
    /\ UNCHANGED reqVars
    /\ logged' = Null

\* The component is torn down: the effects' cleanups run (the auth listener
\* is unsubscribed, the channel removed) and the state is discarded, so the
\* continuations still in flight have nothing left to update.
Unmount ==
    /\ mounted /\ ~dirty
    /\ mounted' = FALSE
    /\ channels' = RemoveChannel(channels)
    /\ subscribed' = FALSE
    /\ getSessionPending' = FALSE
    /\ signInReqs' = <<>> /\ signUpReqs' = <<>> /\ signOutReqs' = <<>>
    /\ loadReqs' = <<>> /\ profileReqs' = <<>> /\ sendReqs' = <<>>
    /\ UNCHANGED uiVars
    /\ UNCHANGED <<dirty, submits>>
    /\ UNCHANGED <<authSession, db, outbox, profileRows>>
    /\ logged' = Null

\* -------------------------------------------------------------------- spec

Next ==
    \/ GetSessionResolved
    \/ \E s \in Users \cup {Null} : AuthStatePushed(s)
    \/ \E u \in Users : SignIn(u)
    \/ \E i \in 1..Len(signInReqs), ok \in BOOLEAN : Authenticate(i, ok)
    \/ \E i \in 1..Len(signInReqs) : SignInDone(i)
    \/ SignUp
    \/ \E i \in 1..Len(signUpReqs), ok \in BOOLEAN : Register(i, ok)
    \/ \E i \in 1..Len(signUpReqs) : SignUpDone(i)
    \/ SignOut
    \/ \E i \in 1..Len(signOutReqs), ok \in BOOLEAN : Deauthenticate(i, ok)
    \/ \E i \in 1..Len(signOutReqs) : SignOutDone(i)
    \/ \E i \in 1..Len(loadReqs), ok \in BOOLEAN : QueryMessages(i, ok)
    \/ \E i \in 1..Len(loadReqs) : FetchMessagesDone(i)
    \/ \E id \in outbox : LiveInsert(id)
    \/ \E id \in outbox : EventUnheard(id)
    \/ \E u \in Users : OtherClientInsert(u)
    \/ \E i \in 1..Len(profileReqs), ok \in BOOLEAN : QueryProfiles(i, ok)
    \/ \E i \in 1..Len(profileReqs) : FetchProfilesDone(i)
    \/ \E u \in Users, row \in ProfileRows : ProfileRowChanged(u, row)
    \/ SendMessage
    \/ \E i \in 1..Len(sendReqs), ok \in BOOLEAN : InsertMessage(i, ok)
    \/ \E i \in 1..Len(sendReqs) : SendMessageDone(i)
    \/ \E c \in Contents : TypeMessage(c)
    \/ ToggleMenu
    \/ SwitchView
    \/ Render
    \/ Unmount

Spec == Init /\ [][Next]_vars

\* The session lifecycle on its own: the backend's tables stay as they are
\* (nobody posts, nobody edits a profile) and nothing is typed or sent.
SessionNext ==
    \/ GetSessionResolved
    \/ \E s \in Users \cup {Null} : AuthStatePushed(s)
    \/ \E u \in Users : SignIn(u)
    \/ \E i \in 1..Len(signInReqs), ok \in BOOLEAN : Authenticate(i, ok)
    \/ \E i \in 1..Len(signInReqs) : SignInDone(i)
    \/ SignUp
    \/ \E i \in 1..Len(signUpReqs), ok \in BOOLEAN : Register(i, ok)
    \/ \E i \in 1..Len(signUpReqs) : SignUpDone(i)
    \/ SignOut
    \/ \E i \in 1..Len(signOutReqs), ok \in BOOLEAN : Deauthenticate(i, ok)
    \/ \E i \in 1..Len(signOutReqs) : SignOutDone(i)
    \/ \E i \in 1..Len(loadReqs), ok \in BOOLEAN : QueryMessages(i, ok)
    \/ \E i \in 1..Len(loadReqs) : FetchMessagesDone(i)
    \/ \E i \in 1..Len(profileReqs), ok \in BOOLEAN : QueryProfiles(i, ok)
    \/ \E i \in 1..Len(profileReqs) : FetchProfilesDone(i)
    \/ ToggleMenu
    \/ SwitchView
    \/ Render
    \/ Unmount

SessionSpec == Init /\ [][SessionNext]_vars

\* The event loop runs every queued task: a scheduled render is run, the
\* backend answers a call, and the continuation of an answered call is run,
\* however many other events arrive in between.
FairSessionSpec ==
    /\ SessionSpec
    /\ WF_vars(Render)
    /\ SF_vars(\E i \in 1..Len(signInReqs), ok \in BOOLEAN : Authenticate(i, ok))
    /\ SF_vars(\E i \in 1..Len(signInReqs) : SignInDone(i))

\* The user of this client in the specifications that fix one.
Me == "u1"

\* The start with a stored session of that user, or none.
InitOneUser == Init /\ authSession \in {Me, Null}

\* The start with a stored session of that user.
InitSignedIn == Init /\ authSession = Me

\* The feed on its own: one user, whose sessions come and go by the initial
\* discovery and by pushed auth events; messages are posted by other clients;
\* the profiles table stays as it is and nothing is typed or sent.
FeedNext ==
    \/ GetSessionResolved
    \/ \E s \in {Me, Null} : AuthStatePushed(s)
    \/ \E i \in 1..Len(loadReqs), ok \in BOOLEAN : QueryMessages(i, ok)
    \/ \E i \in 1..Len(loadReqs) : FetchMessagesDone(i)
    \/ \E id \in outbox : LiveInsert(id)
    \/ \E id \in outbox : EventUnheard(id)
    \/ \E u \in Users : OtherClientInsert(u)
    \/ \E i \in 1..Len(profileReqs), ok \in BOOLEAN : QueryProfiles(i, ok)
    \/ \E i \in 1..Len(profileReqs) : FetchProfilesDone(i)
    \/ Render

FeedSpec == InitOneUser /\ [][FeedNext]_vars

\* The feed across sign-outs: any user, whose sessions come and go by the
\* initial discovery, by pushed auth events and by signOut.
SignOutNext ==
    \/ GetSessionResolved
    \/ \E s \in Users \cup {Null} : AuthStatePushed(s)
    \/ SignOut
    \/ \E i \in 1..Len(signOutReqs), ok \in BOOLEAN : Deauthenticate(i, ok)
    \/ \E i \in 1..Len(signOutReqs) : SignOutDone(i)
    \/ \E i \in 1..Len(loadReqs), ok \in BOOLEAN : QueryMessages(i, ok)
    \/ \E i \in 1..Len(loadReqs) : FetchMessagesDone(i)
    \/ \E id \in outbox : LiveInsert(id)
    \/ \E id \in outbox : EventUnheard(id)
    \/ \E u \in Users : OtherClientInsert(u)
    \/ \E i \in 1..Len(profileReqs), ok \in BOOLEAN : QueryProfiles(i, ok)
    \/ \E i \in 1..Len(profileReqs) : FetchProfilesDone(i)
    \/ ToggleMenu
    \/ Render

SignOutSpec == Init /\ [][SignOutNext]_vars

\* Sending on its own: one user, whose sessions come and go by the initial
\* discovery and by pushed auth events; the only messages are the ones this
\* component sends.
SendNext ==
    \/ GetSessionResolved
    \/ \E s \in {Me, Null} : AuthStatePushed(s)
    \/ \E i \in 1..Len(loadReqs), ok \in BOOLEAN : QueryMessages(i, ok)
    \/ \E i \in 1..Len(loadReqs) : FetchMessagesDone(i)
    \/ \E id \in outbox : LiveInsert(id)
    \/ \E id \in outbox : EventUnheard(id)
    \/ \E i \in 1..Len(profileReqs), ok \in BOOLEAN : QueryProfiles(i, ok)
    \/ \E i \in 1..Len(profileReqs) : FetchProfilesDone(i)
    \/ SendMessage
    \/ \E i \in 1..Len(sendReqs), ok \in BOOLEAN : InsertMessage(i, ok)
    \/ \E i \in 1..Len(sendReqs) : SendMessageDone(i)
    \/ \E c \in Contents : TypeMessage(c)
    \/ Render

SendSpec == InitOneUser /\ [][SendNext]_vars

\* The profile cache on its own: the session of one user, discovered at the
\* start and kept; messages are posted by other clients and profile rows are
\* edited on the backend.
ProfileNext ==
    \/ GetSessionResolved
    \/ \E i \in 1..Len(loadReqs), ok \in BOOLEAN : QueryMessages(i, ok)
    \/ \E i \in 1..Len(loadReqs) : FetchMessagesDone(i)
    \/ \E id \in outbox : LiveInsert(id)
    \/ \E id \in outbox : EventUnheard(id)
    \/ \E u \in Users : OtherClientInsert(u)
    \/ \E i \in 1..Len(profileReqs), ok \in BOOLEAN : QueryProfiles(i, ok)
    \/ \E i \in 1..Len(profileReqs) : FetchProfilesDone(i)
    \/ \E u \in Users, row \in ProfileRows : ProfileRowChanged(u, row)
    \/ Render

ProfileSpec == InitSignedIn /\ [][ProfileNext]_vars

\* ------------------------------------------------------------------ claims

\* The calls of one kind that are sent and not yet answered.
NumSent(reqs) == Cardinality({i \in 1..Len(reqs) : reqs[i].phase = "sent"})

\* C1: whatever the sequence of sign-ins, sign-outs, pushed auth events and
\* re-renders, at most one live channel exists at any time, and the one that
\* exists is the one the subscription effect holds: a new channel is created
\* only once the previous one has been removed.
AtMostOneSubscription ==
    /\ channels <= 1
    /\ channels = 1 => subscribed

\* C1 witness: a channel is held in a chat screen that has been rendered again
\* (the menu was opened) since the session began.
ResubscribedOnRerender ==
    /\ mounted /\ ~dirty /\ session # Null
    /\ menuOpen
    /\ channels = 1 /\ subscribed

\* C4: a step that takes the component from no session to a session sends
\* exactly one messages query, and a step that takes it from a session to no
\* session sends none.
OneLoadPerSessionStart ==
    [][ /\ (session = Null /\ session' # Null) =>
              loadReqs' = Append(loadReqs, [phase |-> "sent", rows |-> 0])
        /\ (session # Null /\ session' = Null) => loadReqs' = loadReqs ]_vars

\* C4 witness: a sign-in has established the session and its one load is in
\* flight.
LoadSentAfterSignIn ==
    /\ session # Null
    /\ signInReqs # <<>> /\ signInReqs[1].phase = "ok"
    /\ Len(loadReqs) = 1 /\ loadReqs[1].phase = "sent"

\* C6: once the component has rendered, it holds a live channel exactly when
\* a session is active; after the teardown it holds none.
SubscriptionIffSession ==
    /\ (mounted /\ ~dirty) => ((session # Null) <=> (channels = 1 /\ subscribed))
    /\ (mounted /\ ~dirty /\ session = Null) => channels = 0
    /\ ~mounted => (channels = 0 /\ ~subscribed)

\* C6 witness: the session of a chat screen has ended, the component has
\* rendered, and no channel is left.
ReleasedAfterSessionEnd ==
    /\ mounted /\ ~dirty
    /\ session = Null /\ view = "chat"
    /\ channels = 0 /\ ~subscribed

\* C7: the signUp operation establishes no session and leaves the view as it
\* is (no step of it changes session, backend session or view), and the step
\* that completes a successful signUp sets the message to exactly
\* "Check your email for the confirmation link.".
SignUpStaysUnauthenticated ==
    [][ /\ (mounted' /\ signUpReqs' # signUpReqs) =>
              /\ session' = session
              /\ authSession' = authSession
              /\ view' = view
        /\ \A i \in 1..Len(signUpReqs) :
              (mounted' /\ signUpReqs[i] = "ok" /\ signUpReqs' = RemoveAt(signUpReqs, i))
              => error' = CheckEmailMsg ]_vars

\* C7 witness: a signUp has succeeded: the message is shown on the signup
\* view and there is no session.
CheckEmailShown ==
    /\ error = CheckEmailMsg
    /\ view = "signup"
    /\ session = Null /\ authSession = Null
    /\ ~loading /\ signUpReqs = <<>>

\* C8: the step that completes a signIn, on either outcome, resets the
\* loading flag, and whenever a signIn is in flight the flag is down again
\* later, unless the component is torn down first (there is no UI then).
SignInResetsLoading ==
    /\ [][ \A i \in 1..Len(signInReqs) :
              (mounted' /\ signInReqs' = RemoveAt(signInReqs, i)) => loading' = FALSE ]_vars
    /\ (signInReqs # <<>>) ~> (loading = FALSE \/ ~mounted)

\* C8 witness: a failed signIn has completed and the flag is down.
FailedSignInNotLoading ==
    /\ mounted /\ ~dirty
    /\ view = "login" /\ error = AuthErrorMsg
    /\ signInReqs = <<>> /\ ~loading

\* C9: signIn clears the error when it is submitted.  When the backend
\* accepts, the session is the user's and the completing step sets the view
\* to chat without setting an error.  When the backend refuses, no session is
\* established and the completing step sets the error to the backend's
\* message and leaves session and view alone.  A sign-in call is sent only by
\* a submission of the enabled login form, never by a completing step.
SignInOutcome ==
    [][ /\ NumSent(signInReqs') > NumSent(signInReqs) =>
              /\ Screen = "login" /\ ~loading /\ ~dirty
              /\ error' = Null
        /\ \A i \in 1..Len(signInReqs) :
              /\ (signInReqs[i].phase = "sent"
                   /\ signInReqs' = [signInReqs EXCEPT ![i].phase = "ok"])
                 => (session' = signInReqs[i].user /\ authSession' = session')
              /\ (signInReqs[i].phase = "sent"
                   /\ signInReqs' = [signInReqs EXCEPT ![i].phase = "error"])
                 => (session' = session /\ authSession' = authSession /\ view' = view)
              /\ (mounted' /\ signInReqs[i].phase = "ok"
                   /\ signInReqs' = RemoveAt(signInReqs, i))
                 => (view' = "chat" /\ error' = error /\ session' = session)
              /\ (mounted' /\ signInReqs[i].phase = "error"
                   /\ signInReqs' = RemoveAt(signInReqs, i))
                 => (error' = AuthErrorMsg /\ session' = session /\ view' = view) ]_vars

\* C9 witness: the backend has accepted a sign-in and the component shows the
\* chat view with that user's session.
SignedInToChat ==
    \E i \in 1..Len(signInReqs) :
        /\ signInReqs[i].phase = "ok"
        /\ session = signInReqs[i].user
        /\ view = "chat" /\ error = Null /\ ~dirty

\* C2: the feed never holds the same message id twice.
NoDuplicateIds ==
    \A i, j \in 1..Len(messages) : i # j => messages[i] # messages[j]

\* C3: the step that completes a signOut leaves the feed empty and the profile
\* cache without entries.
SignOutClearsFeedAndCache ==
    [][ \A i \in 1..Len(signOutReqs) :
            (signOutReqs[i] = "ok" /\ signOutReqs' = RemoveAt(signOutReqs, i))
            => (messages' = <<>> /\ profiles' = [u \in Users |-> Absent]) ]_vars

\* C5: a call of sendMessage with an input that is empty or all whitespace,
\* or with no session, sends no insert and leaves the input, the feed and the
\* profile cache as they are.
BlankOrSignedOut ==
    \/ \A k \in 1..Len(newMessage) : newMessage[k] = Space
    \/ session = Null

SendMessageNoOp ==
    [][ (submits' # submits /\ BlankOrSignedOut) =>
            /\ sendReqs' = sendReqs
            /\ newMessage' = newMessage
            /\ messages' = messages
            /\ profiles' = profiles
            /\ db' = db ]_vars

\* C5 witness: sendMessage has been called on a whitespace-only input in a
\* chat with a session, and nothing was sent.
BlankSubmitIgnored ==
    /\ submits = 1
    /\ session # Null
    /\ newMessage = <<Space, Space, Space>>
    /\ sendReqs = <<>> /\ db = <<>>

\* The message is rendered with its sender's avatar image, not the initials.
RendersAvatar(id) == Avatar(id) = [img |-> UserIdOf(id)]

\* The feed renders the avatar image for every message of a user in ids.
FeedRendersAvatars(ids) ==
    \A k \in 1..Len(messages) :
        UserIdOf(messages[k]) \in ids => RendersAvatar(messages[k])

\* C10 as stated: when a fetchProfiles for a set of ids succeeds, every
\* message of the feed whose sender is in the set is rendered with the
\* sender's profile and not with the initials.
ResolvedProfilesRendered ==
    [][ \A i \in 1..Len(profileReqs), u \in Users :
            ( /\ profileReqs[i].phase = "ok"
              /\ u \in profileReqs[i].ids
              /\ profileReqs' = RemoveAt(profileReqs, i) )
            => FeedRendersAvatars({u})' ]_vars

\* C10 as amended: when a fetchProfiles succeeds, every message of the feed
\* whose sender's returned row has an avatar_url is rendered with the avatar
\* image; and a sender's cached avatar is replaced only by a later
\* successful result that holds a row without avatar_url for that sender.
ResolvedAvatarsRendered ==
    [][ /\ \A i \in 1..Len(profileReqs), u \in Users :
              ( /\ profileReqs[i].phase = "ok"
                /\ profileReqs[i].rows[u] = "pic"
                /\ profileReqs' = RemoveAt(profileReqs, i) )
              => FeedRendersAvatars({u})'
        /\ \A u \in Users :
              (profiles[u] = "pic" /\ profiles'[u] # "pic")
              => \E i \in 1..Len(profileReqs) :
                    /\ profileReqs[i].phase = "ok"
                    /\ profileReqs[i].rows[u] = "plain"
                    /\ profileReqs' = RemoveAt(profileReqs, i) ]_vars

\* C10 witness: a message of the feed is rendered with the avatar of its
\* sender, whose profile came in after an entry without avatar was cached.
AvatarShownInFeed ==
    /\ ~dirty
    /\ \E k \in 1..Len(messages) : RendersAvatar(messages[k])
    /\ \E k \in 1..Len(messages) :
          /\ profiles[UserIdOf(messages[k])] = "plain"
          /\ Avatar(messages[k]) = [initials |-> getInitials(Email(UserIdOf(messages[k])))]

\* The step is part of a send: the call of sendMessage, the backend's answer
\* to its insert, or its continuation.
SendStep ==
    \/ submits' # submits
    \/ db' # db
    \/ \E i \in 1..Len(sendReqs) : sendReqs[i].phase # "sent" /\ sendReqs' = RemoveAt(sendReqs, i)

\* The step completes a send that the backend accepted.
SendAccepted ==
    \E i \in 1..Len(sendReqs) : sendReqs[i].phase = "ok" /\ sendReqs' = RemoveAt(sendReqs, i)

\* The ids that are in the feed.
FeedIds == Range(messages)

\* C11 as stated: a send that is accepted clears the input, no step of a send
\* changes the feed, and a message that was sent enters the feed only in a
\* step that delivers its live INSERT event.
SentAppearsOnlyByLiveAppend ==
    [][ /\ SendAccepted => newMessage' = <<>>
        /\ SendStep => messages' = messages
        /\ \A id \in 1..Len(db) :
              (id \notin FeedIds /\ id \in FeedIds')
              => (id \in outbox /\ id \notin outbox') ]_vars

\* C11 as amended: a send that is accepted clears the input, no step of a
\* send changes the feed, and a message that was sent enters the feed only in
\* a step that delivers its live INSERT event or that completes a feed load
\* whose result holds it.
SentAppearsByLiveAppendOrLoad ==
    [][ /\ SendAccepted => newMessage' = <<>>
        /\ SendStep => messages' = messages
        /\ \A id \in 1..Len(db) :
              (id \notin FeedIds /\ id \in FeedIds')
              => \/ id \in outbox /\ id \notin outbox'
                 \/ \E i \in 1..Len(loadReqs) :
                        /\ loadReqs[i].phase = "ok"
                        /\ id <= loadReqs[i].rows
                        /\ loadReqs' = RemoveAt(loadReqs, i) ]_vars

\* C11 witness: a send was accepted and completed, the input is cleared, and
\* the message sent, not yet delivered, is not in the feed.
SentNotYetInFeed ==
    /\ session # Null /\ ~dirty
    /\ db = <<Me>> /\ outbox = {1}
    /\ sendReqs = <<>> /\ newMessage = <<>>
    /\ messages = <<>>

\* C12 as stated: the step that completes a failed send logs the failure,
\* leaves the error and the feed as they are, and leaves the input without
\* the text that was submitted.
FailedSendDropsMessage ==
    [][ \A i \in 1..Len(sendReqs) :
            (sendReqs[i].phase = "error" /\ sendReqs' = RemoveAt(sendReqs, i))
            => /\ logged' = "send"
               /\ error' = error
               /\ messages' = messages
               /\ newMessage' # sendReqs[i].content ]_vars

\* C12 as amended: the step that completes a failed send logs the failure
\* and leaves the error, the feed, the cache and the input as they are; and
\* the input is changed only by typing or by the completion of an accepted
\* send, so it was not cleared when the send was submitted.
FailedSendKeepsInput ==
    [][ /\ \A i \in 1..Len(sendReqs) :
              (sendReqs[i].phase = "error" /\ sendReqs' = RemoveAt(sendReqs, i))
              => /\ logged' = "send"
                 /\ error' = error
                 /\ messages' = messages
                 /\ profiles' = profiles
                 /\ newMessage' = newMessage
        /\ newMessage' # newMessage => (sendReqs' = sendReqs \/ SendAccepted) ]_vars

\* C12 witness: a send has just failed, and the input still holds the text
\* that was submitted; no error is shown and the feed is empty.
FailedSendStillInInput ==
    /\ logged = "send"
    /\ sendReqs = <<>>
    /\ newMessage = <<"h", "i">>
    /\ error = Null /\ messages = <<>> /\ db = <<>>

\* The step delivers the live INSERT event of message id.
LiveAppendOf(id) ==
    id \in outbox /\ id \notin outbox' /\ messages' # messages

\* C13: the delivery of a live message sends a profiles query for its sender
\* when the sender has no entry in the cache, and sends none when the sender
\* has one.
EnrichOnlyUncachedSender ==
    [][ \A id \in 1..Len(db) :
            LiveAppendOf(id) =>
                IF profiles[UserIdOf(id)] = Absent
                THEN /\ Len(profileReqs') = Len(profileReqs) + 1
                     /\ profileReqs'[Len(profileReqs')].ids = {UserIdOf(id)}
                ELSE profileReqs' = profileReqs ]_vars

\* The step completes load i, which the backend answered with rows.
LoadSucceeded(i) ==
    loadReqs[i].phase = "ok" /\ loadReqs' = RemoveAt(loadReqs, i) /\ mounted'

\* C14: the step that completes a successful load leaves the feed equal to
\* the history fetched, rows 1..n in their order, whatever the feed held.
LoadReplacesFeed ==
    [][ \A i \in 1..Len(loadReqs) :
            LoadSucceeded(i) =>
                /\ Len(messages') = loadReqs[i].rows
                /\ \A k \in 1..Len(messages') : messages'[k] = k ]_vars

\* C14 witness: a load that returned message 1 completed, then a load that
\* returned messages 1 and 2 completed (their profile queries are in flight,
\* in that order, and no live event was emitted): the feed is <<1, 2>>.
SecondLoadReplacedFirst ==
    /\ db = <<"u1", "u2">> /\ outbox = {1, 2}
    /\ Len(profileReqs) = 2
    /\ profileReqs[1].ids = {"u1"} /\ profileReqs[2].ids = {"u1", "u2"}
    /\ messages = <<1, 2>>

\* The step completes load i, which failed.
LoadFailed(i) ==
    loadReqs[i].phase = "error" /\ loadReqs' = RemoveAt(loadReqs, i) /\ mounted'

\* C15: the step that completes a successful load sends one profiles query,
\* for the set of the senders of the rows loaded; the step that completes a
\* failed load sends none; and no step that sends or answers a load sends one.
EnrichmentAfterLoad ==
    [][ /\ \A i \in 1..Len(loadReqs) :
              LoadSucceeded(i) =>
                  /\ Len(profileReqs') = Len(profileReqs) + 1
                  /\ \A k \in 1..Len(profileReqs) : profileReqs'[k] = profileReqs[k]
                  /\ profileReqs'[Len(profileReqs')].phase = "sent"
                  /\ profileReqs'[Len(profileReqs')].ids =
                        {u \in Users : \E k \in 1..loadReqs[i].rows : db[k] = u}
        /\ \A i \in 1..Len(loadReqs) : LoadFailed(i) => profileReqs' = profileReqs
        /\ (Len(loadReqs') >= Len(loadReqs) /\ loadReqs' # loadReqs)
              => profileReqs' = profileReqs ]_vars

\* C15 witness: a load that returned two messages of the same sender has
\* completed, and one profiles query, for that sender, is in flight.
OneQueryForTwoRows ==
    /\ db = <<"u1", "u1">> /\ outbox = {1, 2}
    /\ messages = <<1, 2>>
    /\ loadReqs = <<>>
    /\ Len(profileReqs) = 1
    /\ profileReqs[1].ids = {"u1"} /\ profileReqs[1].phase = "sent"

\* C16: the delivery of a live message puts it once at the end of the feed
\* and leaves the elements before it as they were, in their order.
LiveAppendAtEnd ==
    [][ \A id \in 1..Len(db) :
            LiveAppendOf(id) =>
                /\ Len(messages') = Len(messages) + 1
                /\ \A k \in 1..Len(messages) : messages'[k] = messages[k]
                /\ messages'[Len(messages')] = id ]_vars

\* C16 witness: the event of message 2 was delivered before the event of
\* message 1, and the feed holds them in that order.
DeliveryOrderKept ==
    /\ ~dirty
    /\ messages = <<2, 1>>

\* The step completes profiles query i, which failed.
ProfilesFailed(i) ==
    profileReqs[i].phase = "error" /\ profileReqs' = RemoveAt(profileReqs, i) /\ mounted'

\* C17: the step that completes a failed messages query, or a failed
\* profiles query, logs the failure and leaves the feed, the profile cache
\* and the error shown as they are.
FailedFetchOnlyLogged ==
    [][ /\ \A i \in 1..Len(loadReqs) :
              LoadFailed(i) =>
                  /\ logged' = "messages"
                  /\ messages' = messages /\ profiles' = profiles /\ error' = error
        /\ \A i \in 1..Len(profileReqs) :
              ProfilesFailed(i) =>
                  /\ logged' = "profiles"
                  /\ messages' = messages /\ profiles' = profiles /\ error' = error ]_vars

\* C17 witness: a profiles query has just failed while the feed held a
\* message and the cache an avatar: both are still there, no error is shown.
FailedProfilesKeptCache ==
    /\ logged = "profiles"
    /\ messages # <<>>
    /\ \E u \in Users : profiles[u] = "pic"
    /\ error = Null

\* The results of the profiles queries that are answered and not yet merged.
Answered ==
    {profileReqs[i].rows : i \in {k \in 1..Len(profileReqs) : profileReqs[k].phase = "ok"}}

\* Merging one result then the other gives the same cache in either order.
Commute(r1, r2) ==
    MergeProfiles(MergeProfiles(profiles, r1), r2)
        = MergeProfiles(MergeProfiles(profiles, r2), r1)

\* Merging a result twice gives the same cache as merging it once, and the
\* merge leaves the entries of the ids for which the result has no row.
IdempotentAndLocal(r) ==
    LET once == MergeProfiles(profiles, r)
    IN  /\ MergeProfiles(once, r) = once
        /\ \A u \in Users : r[u] = NoRow => once[u] = profiles[u]
        /\ \A u \in Users : r[u] # NoRow => once[u] = r[u]

\* C18 as stated: for the results answered, the merge into the cache is
\* idempotent, leaves the entries of other ids untouched, and any two
\* results merged in either order give the same cache.
MergeOrderIndependent ==
    /\ \A r \in Answered : IdempotentAndLocal(r)
    /\ \A r1, r2 \in Answered : Commute(r1, r2)

\* The two results hold no different rows for the same id.
Agree(r1, r2) ==
    \A u \in Users : r1[u] = NoRow \/ r2[u] = NoRow \/ r1[u] = r2[u]

\* C18 as amended: for the results answered, the merge into the cache is
\* idempotent, leaves the entries of other ids untouched, and any two
\* results that hold no different rows for the same id, merged in either
\* order, give the same cache.
MergeOrderIndependentIfAgree ==
    /\ \A r \in Answered : IdempotentAndLocal(r)
    /\ \A r1, r2 \in Answered : Agree(r1, r2) => Commute(r1, r2)

\* C18 witness: two queries issued concurrently for different ids are
\* answered, each with a row, while the cache holds an entry that one of
\* them is to overwrite.
TwoAnswersForDifferentIds ==
    /\ Len(profileReqs) = 2
    /\ profileReqs[1].phase = "ok" /\ profileReqs[2].phase = "ok"
    /\ profileReqs[1].ids \cap profileReqs[2].ids = {}
    /\ \E u \in profileReqs[1].ids : profileReqs[1].rows[u] # NoRow
    /\ \E u \in profileReqs[2].ids : profileReqs[2].rows[u] # NoRow
    /\ \E u \in Users, i \in 1..2 :
          /\ profiles[u] # Absent
          /\ profileReqs[i].rows[u] \notin {NoRow, profiles[u]}

\* C19: in every settled state of the mounted component with no session and
\* loading false, the view is login or signup, not chat.
NoChatViewWithoutSession ==
    (mounted /\ ~dirty /\ session = Null /\ ~loading) => view \in {"login", "signup"}

\* Message id was delivered by its live event: a profiles query for its
\* sender alone is in flight, and id is the only message of that sender and
\* not the first row, so that no load can have sent that query.
LiveDelivered(id) ==
    /\ id > 1
    /\ \A k \in 1..Len(db) : k # id => db[k] # db[id]
    /\ \E i \in 1..Len(profileReqs) : profileReqs[i].ids = {UserIdOf(id)}

\* C20: with a session, once no load is in flight and no live event is left
\* to deliver, every message that was delivered by its live event is in the
\* feed.
NoMessageLost ==
    (mounted /\ ~dirty /\ session # Null /\ loadReqs = <<>> /\ outbox = {})
    => \A id \in 1..Len(db) : LiveDelivered(id) => id \in FeedIds

\* C21: while there is no session, the step that completes a messages query
\* or a profiles query leaves the feed and the profile cache as they are.
LateFetchIgnoredWithoutSession ==
    [][ (session = Null /\ mounted') =>
            /\ \A i \in 1..Len(loadReqs) :
                  (loadReqs[i].phase # "sent" /\ loadReqs' = RemoveAt(loadReqs, i))
                  => (messages' = messages /\ profiles' = profiles)
            /\ \A i \in 1..Len(profileReqs) :
                  (profileReqs[i].phase # "sent" /\ profileReqs' = RemoveAt(profileReqs, i))
                  => (messages' = messages /\ profiles' = profiles) ]_vars

====
